---- MODULE Spec2Model ----
(***************************************************************************)
(* FlashBriefs (streamlit_app.py): the catalog, the three pure functions   *)
(* fetch_news, find_related_articles and generate_agent_response, and the  *)
(* Streamlit session driven by main().                                     *)
(*                                                                         *)
(* Conventions.  A news item is a Python dict; the model refers to it by   *)
(* an object reference, a position of Heap, so that `is` is equality of    *)
(* references while the fields are read through Heap.  Python list         *)
(* positions are 0-based, the positions here are 1-based.  Item topics,   *)
(* which the code only tests for membership, are sets.  Titles are        *)
(* written without accents.  The summary, source and link of an item are  *)
(* only ever printed and are left out.                                     *)
(***************************************************************************)
EXTENDS Integers, Sequences, FiniteSets, TLC

VARIABLES
    news,           \* st.session_state['news']: sequence of item references
    chat_messages,  \* st.session_state['chat_messages']: dict idx -> messages
    chat_open,      \* st.session_state['chat_open']: idx or None
    panels,         \* output of the last script run: the chat panels drawn
    error,          \* exception that ended the last script run, or None
    last_criteria,  \* <<arguments of the last fetch_news call of main>>, or <<>>
    last_action,    \* the widget event the last script run handled, whether
                    \* its widget was on screen, and the messages stored then
    pc,             \* "session", or the position of a pure-function call
    args,           \* arguments of the pure-function call
    ret,            \* value returned by the pure-function call
    twin            \* session state of a second user, or NoTwin

vars == <<news, chat_messages, chat_open, panels, error, last_criteria,
          last_action, pc, args, ret, twin>>

sessionVars == <<news, chat_messages, chat_open, panels, error,
                 last_criteria, last_action>>

callVars == <<pc, args, ret>>

\* chat_open = None: no card position (positions start at 1).
None == 0

\* No exception ended the run.
NoError == "ok"

\* No pure-function call.
NoCall == [fn |-> "none"]

\* No second session.
NoTwin == [news |-> <<>>]

(***************************************************************************)
(* The catalog.                                                            *)
(***************************************************************************)
SAMPLE_ITEMS ==
    << [title |-> "Apple devoile son nouveau casque de realite mixte",
        lang |-> "fr", country |-> "fr", topics |-> {"tech"}],
       [title |-> "La France adopte une loi sur la neutralite carbone",
        lang |-> "fr", country |-> "fr",
        topics |-> {"environnement", "politique"}],
       [title |-> "Une avancee majeure dans la lutte contre le cancer du sein",
        lang |-> "fr", country |-> "fr", topics |-> {"health", "science"}],
       [title |-> "Tesla annonce une nouvelle batterie revolutionnaire",
        lang |-> "en", country |-> "int", topics |-> {"tech", "economy"}],
       [title |-> "Climate change threatens global food security",
        lang |-> "en", country |-> "int",
        topics |-> {"environnement", "science"}],
       [title |-> "Blockchain technology transforms supply chains",
        lang |-> "en", country |-> "int", topics |-> {"tech", "economy"}],
       [title |-> "Une decouverte exoplanetaire bouleverse l'astronomie",
        lang |-> "fr", country |-> "fr", topics |-> {"science"}],
       [title |-> "Global markets rally as inflation cools",
        lang |-> "en", country |-> "int", topics |-> {"economy"}] >>

\* An object a caller of find_related_articles can pass besides the
\* catalog's: a dict with the fields of the Tesla item but another identity.
ExtraObjects ==
    << [title |-> "Tesla annonce une nouvelle batterie revolutionnaire",
        lang |-> "en", country |-> "int", topics |-> {"tech", "economy"}] >>

\* The object store: a reference is a position of Heap; the first
\* Len(SAMPLE_ITEMS) references are the catalog's items.
Heap == SAMPLE_ITEMS \o ExtraObjects

CatalogRefs == 1..Len(SAMPLE_ITEMS)

\* The keys of topic_options, the options of the "Sujets" multiselect.
topic_options == {"tech", "science", "economy", "environnement", "health"}

\* The options of the "Langue" and "Zone" selectboxes.
LangOptions == {"fr", "en"}

CountryOptions == {"both", "fr", "int"}

(***************************************************************************)
(* fetch_news                                                              *)
(***************************************************************************)
\* The three `continue` tests of the loop body: TRUE when the item is kept.
\* No language filter.
fetch_keeps_NoLang(item, lang, country, selected_topics) ==
    /\ ~(country # "both" /\ item.country # country)
    /\ ~(selected_topics # {} /\ (selected_topics \cap item.topics) = {})

\* An empty topic selection keeps nothing.
fetch_keeps_EmptyTopics(item, lang, country, selected_topics) ==
    /\ ~(lang # "" /\ item.lang # lang)
    /\ ~(country # "both" /\ item.country # country)
    /\ (selected_topics \cap item.topics) # {}

\* The region "both" is compared with the item's region like any other.
fetch_keeps_BothLiteral(item, lang, country, selected_topics) ==
    /\ ~(lang # "" /\ item.lang # lang)
    /\ item.country = country
    /\ ~(selected_topics # {} /\ (selected_topics \cap item.topics) = {})

fetch_keeps(item, lang, country, selected_topics) ==
    /\ ~(lang # "" /\ item.lang # lang)
    /\ ~(country # "both" /\ item.country # country)
    /\ ~(selected_topics # {} /\ (selected_topics \cap item.topics) = {})

\* The loop over SAMPLE_ITEMS from position k on, `results` built so far.
RECURSIVE fetch_loop(_, _, _, _, _)
fetch_loop(k, results, lang, country, selected_topics) ==
    IF k > Len(SAMPLE_ITEMS) THEN results
    ELSE IF fetch_keeps(SAMPLE_ITEMS[k], lang, country, selected_topics)
         THEN fetch_loop(k + 1, Append(results, k), lang, country,
                         selected_topics)
         ELSE fetch_loop(k + 1, results, lang, country, selected_topics)

fetch_news(lang, country, selected_topics) ==
    fetch_loop(1, <<>>, lang, country, selected_topics)

(***************************************************************************)
(* find_related_articles                                                   *)
(***************************************************************************)
\* The loop over all_items from position k on.  `related` holds the
\* references of the items whose titles the code appends, in order.
\* The article is told apart by its field values, not by its identity.
RECURSIVE related_loop_ByValue(_, _, _, _, _)
related_loop_ByValue(k, related, article, all_items, max_count) ==
    IF k > Len(all_items) THEN related
    ELSE IF Heap[all_items[k]] = Heap[article]
         THEN related_loop_ByValue(k + 1, related, article, all_items,
                                   max_count)
         ELSE LET hit == (Heap[all_items[k]].topics
                            \cap Heap[article].topics) # {}
                  r2 == IF hit THEN Append(related, all_items[k])
                        ELSE related
              IN IF Len(r2) >= max_count THEN r2
                 ELSE related_loop_ByValue(k + 1, r2, article, all_items,
                                           max_count)

\* The article itself is not skipped.
RECURSIVE related_loop_NoSkip(_, _, _, _, _)
related_loop_NoSkip(k, related, article, all_items, max_count) ==
    IF k > Len(all_items) THEN related
    ELSE LET hit == (Heap[all_items[k]].topics
                       \cap Heap[article].topics) # {}
             r2 == IF hit THEN Append(related, all_items[k])
                   ELSE related
         IN IF Len(r2) >= max_count THEN r2
            ELSE related_loop_NoSkip(k + 1, r2, article, all_items,
                                     max_count)

RECURSIVE related_loop(_, _, _, _, _)
related_loop(k, related, article, all_items, max_count) ==
    IF k > Len(all_items) THEN related
    ELSE IF all_items[k] = article                       \* item is article
         THEN related_loop(k + 1, related, article, all_items, max_count)
         ELSE LET hit == (Heap[all_items[k]].topics
                            \cap Heap[article].topics) # {}
                  r2 == IF hit THEN Append(related, all_items[k])
                        ELSE related
              IN IF Len(r2) >= max_count THEN r2          \* break
                 ELSE related_loop(k + 1, r2, article, all_items, max_count)

\* The references of the items find_related_articles reports.
related_refs(article, all_items, max_count) ==
    related_loop(1, <<>>, article, all_items, max_count)

\* What the function returns: the titles of those items.
find_related_articles(article, all_items, max_count) ==
    LET refs == related_refs(article, all_items, max_count)
    IN [k \in 1..Len(refs) |-> Heap[refs[k]].title]

(***************************************************************************)
(* generate_agent_response                                                 *)
(***************************************************************************)
\* ' ; '.join(f'<< {title} >>' for title in titles), from position k on.
\* The titles follow one another with no separator.
RECURSIVE join_quoted_NoSeparator(_, _)
join_quoted_NoSeparator(titles, k) ==
    IF k > Len(titles) THEN ""
    ELSE "<< " \o titles[k] \o " >>" \o join_quoted_NoSeparator(titles, k + 1)

RECURSIVE join_quoted(_, _)
join_quoted(titles, k) ==
    IF k > Len(titles) THEN ""
    ELSE IF k = Len(titles) THEN "<< " \o titles[k] \o " >>"
         ELSE "<< " \o titles[k] \o " >>" \o " ; " \o join_quoted(titles, k + 1)

NothingFound == "Je n'ai pas trouve d'autres articles pertinents pour le moment."

SuggestionPrefix == "Voici d'autres articles qui pourraient vous interesser : "

\* The default value of the max_count parameter of find_related_articles.
DefaultMaxCount == 3

\* The reply quotes the question.
generate_agent_response_EchoQuery(user_query, article, all_items) ==
    LET related_titles == find_related_articles(article, all_items,
                                                DefaultMaxCount)
    IN IF related_titles # <<>>
       THEN user_query \o " : " \o SuggestionPrefix
                \o join_quoted(related_titles, 1) \o "."
       ELSE user_query \o " : " \o NothingFound

generate_agent_response(user_query, article, all_items) ==
    LET related_titles == find_related_articles(article, all_items,
                                                DefaultMaxCount)
    IN IF related_titles # <<>>
       THEN SuggestionPrefix \o join_quoted(related_titles, 1) \o "."
       ELSE NothingFound

(***************************************************************************)
(* main: one run of the script handles one widget event                    *)
(***************************************************************************)
\* Bounds of the session model.
MaxSends == 2       \* messages sent between two loads

MaxIndex == 4       \* positions a widget event can name

\* What the text input of a chat panel can hold.
Texts == {"", "q1", "q2"}

Indices == 1..MaxIndex

\* The topics the session's user picks from.  fetch_news is checked on every
\* selection under FetchSpec; the session needs result lists of several
\* lengths and contents, which these give.
SessionTopics == {"tech"}

\* The values the three sidebar widgets hand to a run.
Criteria ==
    { [lang |-> l, country |-> c, selected_topics |-> t] :
        l \in LangOptions, c \in CountryOptions,
        t \in SUBSET SessionTopics }

\* The sidebar as a fresh session shows it: the first option of each
\* selectbox and no topic selected.
DefaultCriteria == [lang |-> "fr", country |-> "both", selected_topics |-> {}]

EmptyDict == [i \in {} |-> <<>>]

\* A widget event: the button pressed ("load", "agent", "send", or "none"
\* for a run that a sidebar widget started), the card it belongs to and the
\* content of that card's text input.
Event(kind, idx, text) == [kind |-> kind, idx |-> idx, text |-> text]

NoEvent == Event("none", 0, "")

\* The card positions whose chat panel is part of an output.
PanelIdxs(out) == { out[k].idx : k \in 1..Len(out) }

\* Whether the widget of an event is part of the output on screen.
OnScreen(ev) ==
    CASE ev.kind = "agent" -> ev.idx \in 1..Len(news)
      [] ev.kind = "send" -> ev.idx \in PanelIdxs(panels)
      [] OTHER -> TRUE

Message(role, content) == [role |-> role, content |-> content]

\* The number of messages in all the histories of a chat_messages dict.
RECURSIVE SumLen(_, _)
SumLen(dict, keys) ==
    IF keys = {} THEN 0
    ELSE LET k == CHOOSE x \in keys : TRUE
         IN Len(dict[k]) + SumLen(dict, keys \ {k})

StoredMessages(dict) == SumLen(dict, DOMAIN dict)

\* The "Charger les breves" branch.
\* The histories survive the load.
load_branch_KeepChats(st, ev, crit) ==
    IF ev.kind = "load"
    THEN [st EXCEPT !.news = fetch_news(crit.lang, crit.country,
                                        crit.selected_topics),
                    !.chat_open = None]
    ELSE st

\* The catalog is filtered on every run, pressed button or not.
load_branch_AlwaysFetch(st, ev, crit) ==
    IF ev.kind = "load"
    THEN [st EXCEPT !.news = fetch_news(crit.lang, crit.country,
                                        crit.selected_topics),
                    !.chat_open = None,
                    !.chat_messages = EmptyDict]
    ELSE [st EXCEPT !.news = fetch_news(crit.lang, crit.country,
                                        crit.selected_topics)]

\* The open index survives the load.
load_branch_KeepOpen(st, ev, crit) ==
    IF ev.kind = "load"
    THEN [st EXCEPT !.news = fetch_news(crit.lang, crit.country,
                                        crit.selected_topics),
                    !.chat_messages = EmptyDict]
    ELSE st

load_branch(st, ev, crit) ==
    IF ev.kind = "load"
    THEN [st EXCEPT !.news = fetch_news(crit.lang, crit.country,
                                        crit.selected_topics),
                    !.chat_open = None,
                    !.chat_messages = EmptyDict]
    ELSE st

\* The "Agent Flashbriefs" button of card idx.
\* The history of the card is emptied each time its chat is opened.
agent_button_Reset(st, ev, idx) ==
    IF ev.kind = "agent" /\ ev.idx = idx
    THEN [st EXCEPT !.chat_open = idx,
                    !.chat_messages =
                        [i \in DOMAIN st.chat_messages \cup {idx} |->
                            IF i = idx THEN <<>> ELSE st.chat_messages[i]]]
    ELSE st

agent_button(st, ev, idx) ==
    IF ev.kind = "agent" /\ ev.idx = idx
    THEN [st EXCEPT !.chat_open = idx,
                    !.chat_messages =
                        IF idx \in DOMAIN st.chat_messages
                        THEN st.chat_messages
                        ELSE [i \in DOMAIN st.chat_messages \cup {idx} |->
                                IF i = idx THEN <<>>
                                ELSE st.chat_messages[i]]]
    ELSE st

\* The "Envoyer" button of the panel of card idx.
\* The reply is stored before the question.
send_button_AgentFirst(st, ev, idx) ==
    IF ev.kind = "send" /\ ev.idx = idx /\ ev.text # ""
    THEN LET reply == generate_agent_response(ev.text, st.news[idx], st.news)
         IN [st EXCEPT !.chat_messages[idx] =
                 @ \o << Message("agent", reply), Message("user", ev.text) >>]
    ELSE st

\* An empty input is sent like any other.
send_button_NoTextCheck(st, ev, idx) ==
    IF ev.kind = "send" /\ ev.idx = idx
    THEN LET reply == generate_agent_response(ev.text, st.news[idx], st.news)
         IN [st EXCEPT !.chat_messages[idx] =
                 @ \o << Message("user", ev.text), Message("agent", reply) >>]
    ELSE st

\* The question is stored without a reply.
send_button_NoReply(st, ev, idx) ==
    IF ev.kind = "send" /\ ev.idx = idx /\ ev.text # ""
    THEN [st EXCEPT !.chat_messages[idx] = @ \o << Message("user", ev.text) >>]
    ELSE st

send_button(st, ev, idx) ==
    IF ev.kind = "send" /\ ev.idx = idx /\ ev.text # ""
    THEN LET reply == generate_agent_response(ev.text, st.news[idx], st.news)
         IN [st EXCEPT !.chat_messages[idx] =
                 @ \o << Message("user", ev.text), Message("agent", reply) >>]
    ELSE st

\* The chat panel of card idx: drawn when the card is the open one, with the
\* messages stored when it is drawn, and followed by the send button.
chat_panel(st, ev, idx) ==
    IF st.chat_open = idx
    THEN IF idx \notin DOMAIN st.chat_messages
         THEN [st EXCEPT !.error = "KeyError"]
         ELSE send_button(
                [st EXCEPT !.panels =
                    Append(@, [idx |-> idx,
                               messages |-> st.chat_messages[idx]])],
                ev, idx)
    ELSE st

\* The loop over the cards from position idx on; an exception ends the run.
RECURSIVE cards_loop(_, _, _)
cards_loop(st, ev, idx) ==
    IF idx > Len(st.news) \/ st.error # NoError THEN st
    ELSE cards_loop(chat_panel(agent_button(st, ev, idx), ev, idx), ev,
                    idx + 1)

\* One run of main() on the session state held by sess, for the event ev
\* and the sidebar values crit.
script_run_on(sess, ev, crit) ==
    cards_loop(load_branch([news |-> sess.news, chat_open |-> sess.chat_open,
                            chat_messages |-> sess.chat_messages,
                            panels |-> <<>>, error |-> NoError], ev, crit),
               ev, 1)

\* One run of main() on the session state, for the event ev and the
\* sidebar values crit.
script_run(ev, crit) ==
    script_run_on([news |-> news, chat_open |-> chat_open,
                   chat_messages |-> chat_messages], ev, crit)

RunStep(ev, crit) ==
    LET st == script_run(ev, crit)
    IN /\ news' = st.news
       /\ chat_open' = st.chat_open
       /\ chat_messages' = st.chat_messages
       /\ panels' = st.panels
       /\ error' = st.error
       /\ last_criteria' = IF ev.kind = "load" THEN <<crit>> ELSE last_criteria
       /\ last_action' = [event |-> ev, on_screen |-> OnScreen(ev),
                          stored_before |-> StoredMessages(chat_messages)]
       /\ UNCHANGED <<callVars, twin>>

\* The user presses "Charger les breves".
LoadAction(crit) ==
    /\ pc = "session"
    /\ RunStep(Event("load", 0, ""), crit)

\* The user changes a sidebar widget: a run with no button pressed.
ChangeCriteria(crit) ==
    /\ pc = "session"
    /\ RunStep(NoEvent, crit)

\* The user presses "Agent Flashbriefs" on card idx.  Only the load branch
\* reads the sidebar values, so this run is given the default ones.
OpenChatAction(idx) ==
    /\ pc = "session"
    /\ RunStep(Event("agent", idx, ""), DefaultCriteria)

\* The user presses "Envoyer" on the panel of card idx holding `text`.
SendMessageAction(idx, text) ==
    /\ pc = "session"
    /\ StoredMessages(chat_messages) < 2 * MaxSends
    /\ RunStep(Event("send", idx, text), DefaultCriteria)

Init ==
    /\ news = <<>>
    /\ chat_messages = EmptyDict
    /\ chat_open = None
    /\ panels = <<>>
    /\ error = NoError
    /\ last_criteria = <<>>
    /\ last_action = [event |-> NoEvent, on_screen |-> TRUE,
                      stored_before |-> 0]
    /\ pc = "session"
    /\ args = NoCall
    /\ ret = NoCall
    /\ twin = NoTwin

Next ==
    \/ \E crit \in Criteria : LoadAction(crit)
    \/ \E crit \in Criteria : ChangeCriteria(crit)
    \/ \E idx \in Indices : OpenChatAction(idx)
    \/ \E idx \in Indices, text \in Texts : SendMessageAction(idx, text)

Spec == Init /\ [][Next]_vars

(***************************************************************************)
(* Calls of the pure functions on their own                                *)
(***************************************************************************)
MaxLen == 3         \* length of the all_items list of a call

MaxCount == 3       \* largest max_count of a call

\* Every topic of the catalog or of the multiselect.
AllTopics == topic_options \cup UNION { SAMPLE_ITEMS[k].topics : k \in CatalogRefs }

\* The objects the calls of find_related_articles are made of: the Tesla,
\* climate, blockchain and markets items of the catalog, and the dict equal
\* to the Tesla item.
RelatedPool == {4, 5, 6, 8, Len(SAMPLE_ITEMS) + 1}

SeqsUpTo(S, n) == UNION { [1..m -> S] : m \in 0..n }

SessionIdle ==
    /\ news = <<>>
    /\ chat_messages = EmptyDict
    /\ chat_open = None
    /\ panels = <<>>
    /\ error = NoError
    /\ last_criteria = <<>>
    /\ last_action = [event |-> NoEvent, on_screen |-> TRUE,
                      stored_before |-> 0]
    /\ twin = NoTwin

InitFetch ==
    /\ SessionIdle
    /\ pc = "call"
    /\ args \in { [fn |-> "fetch_news", lang |-> l, country |-> c,
                   selected_topics |-> t] :
                  l \in LangOptions \cup {""}, c \in CountryOptions,
                  t \in SUBSET AllTopics }
    /\ ret = NoCall

FetchCall ==
    /\ pc = "call"
    /\ args.fn = "fetch_news"
    /\ ret' = fetch_news(args.lang, args.country, args.selected_topics)
    /\ pc' = "returned"
    /\ UNCHANGED <<args, sessionVars, twin>>

NextFetch == FetchCall

FetchSpec == InitFetch /\ [][NextFetch]_vars

InitRelated ==
    /\ SessionIdle
    /\ pc = "call"
    /\ args \in { [fn |-> "find_related_articles", article |-> a,
                   all_items |-> l, max_count |-> m] :
                  a \in RelatedPool, l \in SeqsUpTo(RelatedPool, MaxLen),
                  m \in 0..MaxCount }
    /\ ret = NoCall

RelatedCall ==
    /\ pc = "call"
    /\ args.fn = "find_related_articles"
    /\ ret' = [refs |-> related_refs(args.article, args.all_items,
                                     args.max_count),
               titles |-> find_related_articles(args.article, args.all_items,
                                                args.max_count)]
    /\ pc' = "returned"
    /\ UNCHANGED <<args, sessionVars, twin>>

NextRelated == RelatedCall

RelatedSpec == InitRelated /\ [][NextRelated]_vars

(***************************************************************************)
(* Properties of fetch_news (FetchSpec)                                    *)
(***************************************************************************)
Range(seq) == { seq[k] : k \in 1..Len(seq) }

\* The three inclusion tests of the filter, as the specification states them.
Satisfies(item, lang, country, topics) ==
    /\ item.lang = lang
    /\ (country = "both" \/ item.country = country)
    /\ (topics = {} \/ \E t \in topics : t \in item.topics)

\* C1: for a language fr or en, a region fr, int or both and any set of
\* topics, fetch_news returns exactly the catalog items that pass the three
\* tests, each once and in catalog order.
C1_FetchExactlyMatching ==
    (pc = "returned" /\ args.fn = "fetch_news" /\ args.lang \in LangOptions) =>
        /\ \A k \in 1..Len(ret) :
              /\ ret[k] \in CatalogRefs
              /\ Satisfies(SAMPLE_ITEMS[ret[k]], args.lang, args.country,
                           args.selected_topics)
        /\ \A c \in CatalogRefs :
              Satisfies(SAMPLE_ITEMS[c], args.lang, args.country,
                        args.selected_topics) => c \in Range(ret)
        /\ \A j, k \in 1..Len(ret) : j < k => ret[j] < ret[k]

\* A call that keeps some items of the requested language and region and
\* drops others on the topic test: en, int, {tech} gives Tesla and blockchain.
C1_Witness ==
    /\ pc = "returned"
    /\ args.fn = "fetch_news"
    /\ args.lang = "en" /\ args.country = "int"
    /\ args.selected_topics = {"tech"}
    /\ ret = <<4, 6>>

(***************************************************************************)
(* Properties of find_related_articles (RelatedSpec)                       *)
(***************************************************************************)
SharesTopic(a, b) == (Heap[a].topics \cap Heap[b].topics) # {}

\* The positions of all_items that hold another object than the article
\* and share a topic with it.
Candidates(article, all_items) ==
    { p \in 1..Len(all_items) :
        all_items[p] # article /\ SharesTopic(all_items[p], article) }

\* C3: find_related_articles never returns the focal article, every article
\* it returns shares a topic with the focal one, and the exclusion is by
\* identity: an object with the focal article's field values but another
\* identity is returned like any other candidate (here: whenever the limit
\* leaves room for every candidate).
C3_RelatedExcludesFocal ==
    (pc = "returned" /\ args.fn = "find_related_articles") =>
        /\ \A k \in 1..Len(ret.refs) :
              /\ ret.refs[k] # args.article
              /\ ret.refs[k] \in Range(args.all_items)
              /\ SharesTopic(ret.refs[k], args.article)
              /\ ret.titles[k] = Heap[ret.refs[k]].title
        /\ Len(ret.titles) = Len(ret.refs)
        /\ Cardinality(Candidates(args.article, args.all_items))
                <= args.max_count =>
              \A p \in Candidates(args.article, args.all_items) :
                  args.all_items[p] \in Range(ret.refs)

\* The Tesla item as focal article in a list that holds it, its equal-valued
\* twin and an unrelated item: the twin alone is returned.
C3_Witness ==
    /\ pc = "returned"
    /\ args.fn = "find_related_articles"
    /\ args.article = 4
    /\ args.all_items = <<4, Len(SAMPLE_ITEMS) + 1, 5>>
    /\ ret.refs = << Len(SAMPLE_ITEMS) + 1 >>
    /\ ret.titles = << Heap[4].title >>

\* The candidates of all_items from position p on, in list order.
RECURSIVE CandidateSeq(_, _, _)
CandidateSeq(article, all_items, p) ==
    IF p > Len(all_items) THEN <<>>
    ELSE IF p \in Candidates(article, all_items)
         THEN <<all_items[p]>> \o CandidateSeq(article, all_items, p + 1)
         ELSE CandidateSeq(article, all_items, p + 1)

Min(a, b) == IF a <= b THEN a ELSE b

\* C4: for every limit max_count >= 0, find_related_articles returns at most
\* max_count entries, and they are the first min(max_count, m) candidates in
\* list order, m being the number of candidates.
C4_RelatedFirstUpToLimit ==
    (pc = "returned" /\ args.fn = "find_related_articles") =>
        LET all == CandidateSeq(args.article, args.all_items, 1)
        IN /\ Len(ret.refs) <= args.max_count
           /\ ret.refs = SubSeq(all, 1, Min(args.max_count, Len(all)))

(***************************************************************************)
(* Properties of the session (Spec)                                        *)
(***************************************************************************)
Titles(refs) == [k \in 1..Len(refs) |-> Heap[refs[k]].title]

FrFrNoTopic == [lang |-> "fr", country |-> "fr", selected_topics |-> {}]

HeadsetTitle == "Apple devoile son nouveau casque de realite mixte"

CarbonLawTitle == "La France adopte une loi sur la neutralite carbone"

BreastCancerTitle == "Une avancee majeure dans la lutte contre le cancer du sein"

ExoplanetTitle == "Une decouverte exoplanetaire bouleverse l'astronomie"

\* C2, as stated: loading fr, fr, no topic gives exactly three items, the
\* headset, carbon-law and breast-cancer articles, in that order.
C2_FrFrGivesThree ==
    last_criteria = <<FrFrNoTopic>> =>
        Titles(news) = <<HeadsetTitle, CarbonLawTitle, BreastCancerTitle>>

\* C2, amended: loading fr, fr, no topic gives exactly four items, the
\* headset, carbon-law, breast-cancer and exoplanet articles, in that order.
C2_FrFrGivesFour ==
    last_criteria = <<FrFrNoTopic>> =>
        Titles(news) = <<HeadsetTitle, CarbonLawTitle, BreastCancerTitle,
                         ExoplanetTitle>>

\* The run that loads fr, fr, no topic has just ended.
C2_Witness ==
    /\ last_action.event.kind = "load"
    /\ last_criteria = <<FrFrNoTopic>>
    /\ Len(news) = 4

\* C5: the run that handles a load leaves the filter output of its criteria
\* as result list, no chat history for any index, and no open chat; no
\* message stored before is stored or drawn after it.
C5_LoadResets ==
    last_action.event.kind = "load" =>
        /\ Len(last_criteria) = 1
        /\ news = fetch_news(last_criteria[1].lang, last_criteria[1].country,
                             last_criteria[1].selected_topics)
        /\ DOMAIN chat_messages = {}
        /\ chat_open = None
        /\ panels = <<>>

\* A load that found messages stored under the earlier result list.
C5_Witness ==
    /\ last_action.event.kind = "load"
    /\ last_action.stored_before >= 2
    /\ news # <<>>

\* C6: the result list is the filter output of the criteria of the most
\* recent load, and is empty before any load, whatever ran since.
C6_NewsIsLastLoad ==
    news = IF last_criteria = <<>> THEN <<>>
           ELSE fetch_news(last_criteria[1].lang, last_criteria[1].country,
                           last_criteria[1].selected_topics)

\* A sidebar widget was changed, with no load, while a chat holding messages
\* was open.
C6_Witness ==
    /\ last_action.event.kind = "none"
    /\ last_criteria # <<>>
    /\ chat_open # None
    /\ last_action.stored_before >= 2

\* C7: a send of a non-empty text on the open index appends to the history
\* of that index the user message and then the agent reply computed from the
\* text, the item at that index and the result list, and changes neither the
\* result list, nor the open index, nor any other history.
C7_SendAppendsTwo ==
    [][ (/\ last_action'.event.kind = "send"
         /\ last_action'.event.text # ""
         /\ last_action'.event.idx = chat_open) =>
            LET idx == chat_open
                text == last_action'.event.text
            IN /\ DOMAIN chat_messages' = DOMAIN chat_messages
               /\ chat_messages'[idx] =
                     chat_messages[idx] \o
                       << [role |-> "user", content |-> text],
                          [role |-> "agent",
                           content |-> generate_agent_response(
                                           text, news[idx], news)] >>
               /\ \A j \in DOMAIN chat_messages \ {idx} :
                     chat_messages'[j] = chat_messages[j]
               /\ news' = news
               /\ chat_open' = chat_open ]_vars

\* A second message was sent on the open index, whose history then holds
\* four messages, while another index has a history too.
C7_Witness ==
    /\ last_action.event.kind = "send"
    /\ last_action.event.text # ""
    /\ last_action.event.idx = chat_open
    /\ last_action.stored_before = 2
    /\ Len(chat_messages[chat_open]) = 4
    /\ DOMAIN chat_messages # {chat_open}

\* C8: a send with an empty text, or on an index that is not the open one
\* (no chat open, or the panel of an index open before), changes neither the
\* result list, nor the open index, nor any history.
C8_SendIgnored ==
    [][ (/\ last_action'.event.kind = "send"
         /\ (last_action'.event.text = ""
                \/ last_action'.event.idx # chat_open)) =>
            /\ news' = news
            /\ chat_open' = chat_open
            /\ chat_messages' = chat_messages ]_vars

\* A non-empty text was sent from the panel, still on screen, of an index
\* that was open before another one was opened.
C8_Witness ==
    /\ last_action.event.kind = "send"
    /\ last_action.event.text # ""
    /\ last_action.on_screen
    /\ chat_open # None
    /\ last_action.event.idx # chat_open
    /\ last_action.stored_before >= 2

\* C9: opening the chat of a valid index K makes K the open index, gives K
\* an empty history only if it had none, leaves every existing history and
\* the result list as they were, and draws for K the messages stored for it.
C9_OpenKeepsHistories ==
    [][ (/\ last_action'.event.kind = "agent"
         /\ last_action'.event.idx \in 1..Len(news)) =>
            LET K == last_action'.event.idx
            IN /\ chat_open' = K
               /\ news' = news
               /\ DOMAIN chat_messages' = DOMAIN chat_messages \cup {K}
               /\ \A j \in DOMAIN chat_messages :
                     chat_messages'[j] = chat_messages[j]
               /\ K \notin DOMAIN chat_messages => chat_messages'[K] = <<>>
               /\ \E k \in 1..Len(panels') :
                     /\ panels'[k].idx = K
                     /\ panels'[k].messages = chat_messages'[K] ]_vars

\* An index that holds messages was opened again after another index had
\* been opened.
C9_Witness ==
    /\ last_action.event.kind = "agent"
    /\ chat_open = last_action.event.idx
    /\ chat_open \in DOMAIN chat_messages
    /\ Len(chat_messages[chat_open]) >= 2
    /\ DOMAIN chat_messages # {chat_open}

\* C10: in the output of every run a chat panel is drawn for an index if and
\* only if that index is the open index the run leaves; so every output holds
\* at most one chat panel.
C10_OnePanelOnly ==
    /\ \A idx \in Indices :
          (\E k \in 1..Len(panels) : panels[k].idx = idx) <=> idx = chat_open
    /\ Len(panels) <= 1

\* C11: the output of every run shows, for the open index, the full stored
\* history of that index in arrival order; the run that handles a send of a
\* non-empty text shows the user message and the reply it has just stored.
C11_PanelShowsStoredHistory ==
    chat_open # None =>
        \E k \in 1..Len(panels) :
            /\ panels[k].idx = chat_open
            /\ chat_open \in DOMAIN chat_messages
            /\ panels[k].messages = chat_messages[chat_open]

\* The reference of the Tesla battery item.
Tesla == CHOOSE r \in CatalogRefs :
            SAMPLE_ITEMS[r].title =
                "Tesla annonce une nouvelle batterie revolutionnaire"

\* The items of a list other than the Tesla item that carry the topic tech
\* or the topic economy, in list order.
TeslaRelated(refs) ==
    SelectSeq(refs, LAMBDA r : r # Tesla /\ \E t \in {"tech", "economy"} :
                                              t \in Heap[r].topics)

\* The sentence that lists one, two or three titles.
SuggestionOf(titles) ==
    CASE Len(titles) = 1 ->
            SuggestionPrefix \o "<< " \o titles[1] \o " >>."
      [] Len(titles) = 2 ->
            SuggestionPrefix \o "<< " \o titles[1] \o " >> ; << "
                \o titles[2] \o " >>."
      [] Len(titles) = 3 ->
            SuggestionPrefix \o "<< " \o titles[1] \o " >> ; << "
                \o titles[2] \o " >> ; << " \o titles[3] \o " >>."

\* The step is a run that handles a send of a non-empty text on the open
\* index.
EffectiveSend ==
    /\ last_action'.event.kind = "send"
    /\ last_action'.event.text # ""
    /\ last_action'.event.idx = chat_open
    /\ chat_open \in 1..Len(news)

\* C12: when the Tesla item is in the result list, a non-empty message sent
\* on its chat appends an agent reply that lists the first up to 3 other
\* items of the result list carrying tech or economy, in catalog order and
\* never the Tesla item; with the blockchain and markets items in the list
\* loaded by en, int, no topic, the reply lists exactly those two titles.
C12_TeslaReply ==
    [][ (EffectiveSend /\ news[chat_open] = Tesla) =>
            LET h == chat_messages'[chat_open]
                all == TeslaRelated(news)
                listed == SubSeq(all, 1, Min(3, Len(all)))
            IN /\ Len(h) = Len(chat_messages[chat_open]) + 2
               /\ h[Len(h)].role = "agent"
               /\ \A k \in 1..Len(listed) : listed[k] # Tesla
               /\ \A j, k \in 1..Len(listed) : j < k => listed[j] < listed[k]
               /\ h[Len(h)].content =
                     IF listed = <<>> THEN NothingFound
                     ELSE SuggestionOf(Titles(listed))
               /\ news = <<4, 5, 6, 8>> =>
                     h[Len(h)].content =
                        "Voici d'autres articles qui pourraient vous interesser : "
                        \o "<< Blockchain technology transforms supply chains >>"
                        \o " ; << Global markets rally as inflation cools >>." ]_vars

\* A message was sent on the chat of the Tesla item in the list loaded by
\* en, int, no topic, and the reply naming the two titles is stored.
C12_Witness ==
    /\ last_criteria = << [lang |-> "en", country |-> "int",
                          selected_topics |-> {}] >>
    /\ last_action.event.kind = "send"
    /\ last_action.event.text # ""
    /\ chat_open = 1
    /\ last_action.event.idx = 1
    /\ news[1] = Tesla
    /\ Len(chat_messages[1]) >= 2
    /\ chat_messages[1][2].content =
          "Voici d'autres articles qui pourraient vous interesser : "
          \o "<< Blockchain technology transforms supply chains >>"
          \o " ; << Global markets rally as inflation cools >>."

(***************************************************************************)
(* Two sessions given the same events with different texts (TwinSpec)      *)
(***************************************************************************)
\* The texts a send that is not ignored can carry.
NonEmptyTexts == Texts \ {""}

\* The part of a run's result that the session keeps.
Kept(st) == [news |-> st.news, chat_open |-> st.chat_open,
             chat_messages |-> st.chat_messages]

\* Both sessions start as main() initialises a session.
InitTwin ==
    /\ news = <<>>
    /\ chat_messages = EmptyDict
    /\ chat_open = None
    /\ panels = <<>>
    /\ error = NoError
    /\ last_criteria = <<>>
    /\ last_action = [event |-> NoEvent, on_screen |-> TRUE,
                      stored_before |-> 0]
    /\ pc = "twin"
    /\ args = NoCall
    /\ ret = NoCall
    /\ twin = [news |-> <<>>, chat_open |-> None, chat_messages |-> EmptyDict]

\* One run of main() in each session: event ev1 in the first, ev2 in the
\* second.  The records kept for the witnesses of Spec stay as they are.
TwinStep(ev1, ev2, crit) ==
    LET st == script_run(ev1, crit)
    IN /\ pc = "twin"
       /\ news' = st.news
       /\ chat_open' = st.chat_open
       /\ chat_messages' = st.chat_messages
       /\ panels' = st.panels
       /\ error' = st.error
       /\ twin' = Kept(script_run_on(twin, ev2, crit))
       /\ UNCHANGED <<last_criteria, last_action, callVars>>

TwinLoad(crit) == TwinStep(Event("load", 0, ""), Event("load", 0, ""), crit)

TwinChange(crit) == TwinStep(NoEvent, NoEvent, crit)

TwinOpen(idx) ==
    TwinStep(Event("agent", idx, ""), Event("agent", idx, ""), DefaultCriteria)

\* The same send button, with a text of its own in each session.
TwinSend(idx, text1, text2) ==
    /\ StoredMessages(chat_messages) < 2 * MaxSends
    /\ TwinStep(Event("send", idx, text1), Event("send", idx, text2),
                DefaultCriteria)

NextTwin ==
    \/ \E crit \in Criteria : TwinLoad(crit)
    \/ \E crit \in Criteria : TwinChange(crit)
    \/ \E idx \in Indices : TwinOpen(idx)
    \/ \E idx \in Indices, text1 \in NonEmptyTexts, text2 \in NonEmptyTexts :
            TwinSend(idx, text1, text2)

TwinSpec == InitTwin /\ [][NextTwin]_vars

\* C13: two sessions that perform the same loads, opens and sends and differ
\* only in the non-empty texts sent hold the same result list, the same open
\* index and, at every position of every history, the same agent message.
C13_ReplyIgnoresText ==
    pc = "twin" =>
        /\ twin.news = news
        /\ twin.chat_open = chat_open
        /\ DOMAIN twin.chat_messages = DOMAIN chat_messages
        /\ \A i \in DOMAIN chat_messages :
              /\ Len(twin.chat_messages[i]) = Len(chat_messages[i])
              /\ \A k \in 1..Len(chat_messages[i]) :
                    /\ twin.chat_messages[i][k].role = chat_messages[i][k].role
                    /\ chat_messages[i][k].role = "agent" =>
                          twin.chat_messages[i][k] = chat_messages[i][k]

\* The two sessions have sent different texts on the same index and each
\* holds the reply to its own.
C13_Witness ==
    /\ pc = "twin"
    /\ \E i \in DOMAIN chat_messages :
          /\ Len(chat_messages[i]) >= 2
          /\ i \in DOMAIN twin.chat_messages
          /\ Len(twin.chat_messages[i]) >= 2
          /\ chat_messages[i][1].content # twin.chat_messages[i][1].content
          /\ chat_messages[i][2].role = "agent"

\* C14: for every language and topic set, the result for region both holds
\* exactly the items of the result for fr together with those of the result
\* for int, none of them twice, and the fr and int results share no item.
C14_BothIsUnion ==
    (pc = "returned" /\ args.fn = "fetch_news" /\ args.country = "both") =>
        LET fr == fetch_news(args.lang, "fr", args.selected_topics)
            int == fetch_news(args.lang, "int", args.selected_topics)
        IN /\ Range(ret) = Range(fr) \cup Range(int)
           /\ Len(ret) = Len(fr) + Len(int)
           /\ \A j, k \in 1..Len(ret) : j # k => ret[j] # ret[k]
           /\ Range(fr) \cap Range(int) = {}

\* A call for region both whose result is not empty: en, both, {economy}.
C14_Witness ==
    /\ pc = "returned"
    /\ args.fn = "fetch_news"
    /\ args.country = "both"
    /\ args.lang = "en"
    /\ args.selected_topics = {"economy"}
    /\ ret = <<4, 6, 8>>
    /\ fetch_news("en", "int", {"economy"}) = <<4, 6, 8>>
    /\ fetch_news("en", "fr", {"economy"}) = <<>>

(***************************************************************************)
(* Calls of generate_agent_response on their own (RespondSpec)             *)
(***************************************************************************)
InitRespond ==
    /\ SessionIdle
    /\ pc = "call"
    /\ args \in { [fn |-> "generate_agent_response", user_query |-> q,
                   article |-> a, all_items |-> l] :
                  q \in Texts, a \in RelatedPool,
                  l \in SeqsUpTo(RelatedPool, MaxLen) }
    /\ ret = NoCall

RespondCall ==
    /\ pc = "call"
    /\ args.fn = "generate_agent_response"
    /\ ret' = generate_agent_response(args.user_query, args.article,
                                      args.all_items)
    /\ pc' = "returned"
    /\ UNCHANGED <<args, sessionVars, twin>>

NextRespond == RespondCall

RespondSpec == InitRespond /\ [][NextRespond]_vars

\* C15: generate_agent_response returns the 'nothing found' sentence if and
\* only if find_related_articles(article, all_items) is empty; otherwise it
\* returns the suggestion sentence listing exactly the titles that
\* find_related_articles returns with limit 3, in the same order.
C15_RespondFollowsRelated ==
    (pc = "returned" /\ args.fn = "generate_agent_response") =>
        LET titles == find_related_articles(args.article, args.all_items, 3)
        IN /\ (ret = NothingFound) <=> (titles = <<>>)
           /\ Len(titles) <= 3
           /\ titles # <<>> => ret = SuggestionOf(titles)

\* A call that lists three titles: the blockchain item, the dict equal to
\* the Tesla item and the markets item, for the Tesla item as article.
C15_Witness ==
    /\ pc = "returned"
    /\ args.fn = "generate_agent_response"
    /\ args.article = 4
    /\ args.all_items = <<6, Len(SAMPLE_ITEMS) + 1, 8>>
    /\ ret = "Voici d'autres articles qui pourraient vous interesser : "
             \o "<< Blockchain technology transforms supply chains >>"
             \o " ; << Tesla annonce une nouvelle batterie revolutionnaire >>"
             \o " ; << Global markets rally as inflation cools >>."

(***************************************************************************)
(* Invariants of the session (Spec)                                        *)
(***************************************************************************)
\* C16: the open index is None or a position of the result list that has a
\* history, every key of chat_messages is a position of the result list, and
\* no run ends on the KeyError of the history lookup.
C16_OpenIndexValid ==
    /\ error = NoError
    /\ \/ chat_open = None
       \/ /\ chat_open \in 1..Len(news)
          /\ chat_open \in DOMAIN chat_messages
    /\ \A i \in DOMAIN chat_messages : i \in 1..Len(news)

\* The last card of a two-item result list is open and holds messages, and
\* the first card has a history too.
C16_Witness ==
    /\ Len(news) = 2
    /\ chat_open = 2
    /\ DOMAIN chat_messages = {1, 2}
    /\ Len(chat_messages[2]) >= 2
    /\ Len(panels) = 1

\* C17: every stored history has even length and alternates user, agent,
\* user, agent, ... from its first message on.
C17_HistoriesAlternate ==
    \A i \in DOMAIN chat_messages :
        /\ Len(chat_messages[i]) % 2 = 0
        /\ \A k \in 1..Len(chat_messages[i]) :
              chat_messages[i][k].role =
                  IF k % 2 = 1 THEN "user" ELSE "agent"

\* A history of two exchanges on an index that is no longer the open one.
C17_Witness ==
    \E i \in DOMAIN chat_messages :
        /\ Len(chat_messages[i]) = 4
        /\ chat_open # i
        /\ chat_open # None

\* The reply for the item at position i of a result list, from the
\* candidates of that list.
ReplyFor(refs, i) ==
    LET all == CandidateSeq(refs[i], refs, 1)
        listed == SubSeq(all, 1, Min(3, Len(all)))
    IN IF listed = <<>> THEN NothingFound ELSE SuggestionOf(Titles(listed))

\* C18: every agent message stored in the history of index i is the reply
\* for the item at position i of the current result list, computed on the
\* current result list; so the agent messages of one history are identical
\* and none names an article outside the current result list.
C18_RepliesMatchCurrentList ==
    \A i \in DOMAIN chat_messages :
        \A k \in 1..Len(chat_messages[i]) :
            chat_messages[i][k].role = "agent" =>
                /\ i \in 1..Len(news)
                /\ chat_messages[i][k].content = ReplyFor(news, i)
                /\ chat_messages[i][k].content =
                      generate_agent_response(chat_messages[i][1].content,
                                              news[i], news)
                /\ \A m \in 1..Len(chat_messages[i]) :
                      chat_messages[i][m].role = "agent" =>
                          chat_messages[i][m] = chat_messages[i][k]

\* Two histories of one result list hold different replies: one item has no
\* related article in the list, the other has.
C18_Witness ==
    \E i, j \in DOMAIN chat_messages :
        /\ i # j
        /\ Len(chat_messages[i]) = 2
        /\ Len(chat_messages[j]) = 2
        /\ chat_messages[i][2].content = NothingFound
        /\ chat_messages[j][2].content # NothingFound

====
